---- MODULE Spec2Model ----
(***************************************************************************)
(* RenderingEngine (src/client/renderingengine.cpp): the process-wide      *)
(* device owner, its rendering core ("strategy"), the loading screen, the  *)
(* driver lookup and the functions that probe the platform through a       *)
(* transient null device.                                                  *)
(*                                                                         *)
(* Every operation is one action.  Its body is the sequence of the         *)
(* function's statements, each an operator from a state record to a state  *)
(* record; the statements that act on another object append an event to    *)
(* `trace`, together with a snapshot of the heap at that moment, so that   *)
(* the order of the effects inside one call is part of the state.          *)
(***************************************************************************)
EXTENDS Integers, Sequences, FiniteSets, TLC

VARIABLES
    s_singleton,  \* RenderingEngine::s_singleton: an engine id, or NULL
    engines,      \* the RenderingEngine objects that are constructed and not destroyed
    m_device,     \* m_device of each engine: a device id, or NULL
    core,         \* core (std::unique_ptr<RenderingCore>) of each engine: a core id, or NULL
    devices,      \* the live IrrlichtDevice objects
    cores,        \* the live RenderingCore objects
    guiNodes,     \* number of elements held by the IGUIEnvironment
    lifecycle,    \* the DeviceOwner state of each engine
    fatal,        \* "none" while the process runs; how it ended otherwise
    call,         \* the last operation: its name, its inputs and what it returned
    trace         \* the effects of the last operation, in program order

vars == <<s_singleton, engines, m_device, core, devices, cores, guiNodes,
          lifecycle, fatal, call, trace>>

(***************************************************************************)
(* Bounds                                                                  *)
(***************************************************************************)
MaxEngines == 2
MaxDevices == 3
MaxCores == 3
MaxGuiNodes == 1
MaxTexW == 700

NULL == 0
EngineIds == 1..MaxEngines
DeviceIds == 1..MaxDevices
CoreIds == 1..MaxCores

(***************************************************************************)
(* Strings are sequences of character codes.                               *)
(***************************************************************************)
STR_null == <<110, 117, 108, 108>>
STR_software == <<115, 111, 102, 116, 119, 97, 114, 101>>
STR_burningsvideo == <<98, 117, 114, 110, 105, 110, 103, 115, 118, 105, 100, 101, 111>>
STR_direct3d8 == <<100, 105, 114, 101, 99, 116, 51, 100, 56>>
STR_direct3d9 == <<100, 105, 114, 101, 99, 116, 51, 100, 57>>
STR_opengl == <<111, 112, 101, 110, 103, 108>>
STR_ogles1 == <<111, 103, 108, 101, 115, 49>>
STR_ogles2 == <<111, 103, 108, 101, 115, 50>>
STR_not_a_driver == <<110, 111, 116, 45, 97, 45, 100, 114, 105, 118, 101, 114>>
STR_openg == <<111, 112, 101, 110, 103>>
STR_opengl2 == <<111, 112, 101, 110, 103, 108, 50>>
STR_empty == << >>

tolower(c) == IF c >= 65 /\ c <= 90 THEN c + 32 ELSE c
toupper(c) == IF c >= 97 /\ c <= 122 THEN c - 32 ELSE c

\* The character of a C string at 1-based position i; the terminating NUL past its end.
CharAt(s, i) == IF i <= Len(s) THEN s[i] ELSE 0

RECURSIVE strcasecmp_from(_, _, _)
strcasecmp_from(a, b, i) ==
    LET ca == tolower(CharAt(a, i))
        cb == tolower(CharAt(b, i))
    IN  IF ca # cb THEN ca - cb
        ELSE IF ca = 0 THEN 0
        ELSE strcasecmp_from(a, b, i + 1)

strcasecmp(a, b) == strcasecmp_from(a, b, 1)

RECURSIVE strcmp_from(_, _, _)
strcmp_from(a, b, i) ==
    LET ca == CharAt(a, i)
        cb == CharAt(b, i)
    IN  IF ca # cb THEN ca - cb
        ELSE IF ca = 0 THEN 0
        ELSE strcmp_from(a, b, i + 1)

(***************************************************************************)
(* Driver catalog                                                          *)
(***************************************************************************)
EDT_NULL == 0
EDT_OPENGL == 5
EDT_COUNT == 8

getVideoDriverName(type) ==
    CASE type = 0 -> STR_null
      [] type = 1 -> STR_software
      [] type = 2 -> STR_burningsvideo
      [] type = 3 -> STR_direct3d8
      [] type = 4 -> STR_direct3d9
      [] type = 5 -> STR_opengl
      [] type = 6 -> STR_ogles1
      [] type = 7 -> STR_ogles2

\* The drivers pushed by the loop over 0 .. EDT_COUNT-1, given the set the platform supports.
RECURSIVE getSupportedVideoDrivers_from(_, _)
getSupportedVideoDrivers_from(supported, i) ==
    IF i = EDT_COUNT THEN << >>
    ELSE (IF i \in supported THEN <<i>> ELSE << >>)
         \o getSupportedVideoDrivers_from(supported, i + 1)

getSupportedVideoDrivers(supported) == getSupportedVideoDrivers_from(supported, 0)

\* The loop with a case-sensitive comparison.
RECURSIVE FindDriver_strcmp(_, _, _)
FindDriver_strcmp(driverstring, drivers, i) ==
    IF i > Len(drivers) THEN i
    ELSE IF strcmp_from(driverstring, getVideoDriverName(drivers[i]), 1) = 0 THEN i
    ELSE FindDriver_strcmp(driverstring, drivers, i + 1)

\* The value of i when the constructor's loop over `drivers` ends (1-based;
\* Len(drivers) + 1 is the code's i == drivers.size()).
RECURSIVE FindDriver(_, _, _)
FindDriver(driverstring, drivers, i) ==
    IF i > Len(drivers) THEN i
    ELSE IF strcasecmp(driverstring, getVideoDriverName(drivers[i])) = 0 THEN i
    ELSE FindDriver(driverstring, drivers, i + 1)

\* driverType after the loop, and whether the loop ran off the end of `drivers`.
ResolveDriver(driverstring, drivers) ==
    LET i == FindDriver(driverstring, drivers, 1)
    IN  [type    |-> IF i <= Len(drivers) THEN drivers[i] ELSE EDT_OPENGL,
         invalid |-> (i = Len(drivers) + 1)]

(***************************************************************************)
(* Inputs                                                                  *)
(***************************************************************************)
CaseVariants(s) ==
    { [i \in DOMAIN s |-> IF i \in U THEN toupper(s[i]) ELSE s[i]] : U \in SUBSET DOMAIN s }

DriverStrings ==
    CaseVariants(STR_opengl) \cup CaseVariants(STR_null) \cup CaseVariants(STR_ogles2)
    \cup {STR_software, STR_direct3d9, STR_not_a_driver, STR_openg, STR_opengl2, STR_empty}

\* What IrrlichtDevice::isDriverSupported answers on some builds.
SupportedSets == { {0, 1, 2, 5}, {0, 1, 2, 3, 4, 5}, {0, 1, 2}, {0, 6, 7}, 0..7 }

\* The settings and platforms the lifecycle is explored with.
FewDriverStrings == { STR_opengl, STR_not_a_driver }
FewSupportedSets == { {0, 1, 2, 5}, {0, 1, 2} }

ScreenSizes == { <<800, 600>>, <<1024, 768>> }

\* Values of the "3d_mode" setting.
DrawModes == {"none", "sidebyside", "typo"}

Percents == {-1, 0, 50, 100, 150}
AllPercents == (-1..101) \cup {150}
TexWidths == {256}
TexHeights == {48}

\* Video mode lists (width, height, depth) and desktop modes of the platform.
ModeLists == { << >>, << <<640, 480, 24>> >>, << <<640, 480, 24>>, <<800, 600, 32>> >> }
Desktops == { <<1024, 768, 32>> }

\* What a dereference of a null pointer can do in a build.
UBOutcomes == {"segfault", "undefined"}

(***************************************************************************)
(* The state as a record, and the statements that act on it                *)
(***************************************************************************)
Cur ==
    [single |-> s_singleton, engines |-> engines, m_device |-> m_device,
     core |-> core, devices |-> devices, cores |-> cores, gui |-> guiNodes,
     lifecycle |-> lifecycle, fatal |-> fatal, trace |-> << >>, ret |-> NULL]

Commit(s, c) ==
    /\ s_singleton' = s.single
    /\ engines' = s.engines
    /\ m_device' = s.m_device
    /\ core' = s.core
    /\ devices' = s.devices
    /\ cores' = s.cores
    /\ guiNodes' = s.gui
    /\ lifecycle' = s.lifecycle
    /\ fatal' = s.fatal
    /\ trace' = s.trace
    /\ call' = c

\* An effect, with the number of live cores, devices and GUI elements right after it.
Event(s, ev) ==
    [ev |-> ev, cores |-> Cardinality(s.cores), devices |-> Cardinality(s.devices),
     gui |-> s.gui]

Log(s, ev) == [s EXCEPT !.trace = Append(@, Event(s, ev))]

FreshId(ids, used) == CHOOSE i \in ids \ used : \A j \in ids \ used : i <= j

DeviceOf(s, id) == CHOOSE d \in s.devices : d.id = id
CoreOf(s, id) == CHOOSE c \in s.cores : c.id = id

\* createDeviceEx / createDevice: a new device with one reference, or null.
createDeviceEx(s, params, ok) ==
    IF ~ok THEN [s EXCEPT !.ret = NULL]
    ELSE LET id == FreshId(DeviceIds, {d.id : d \in s.devices})
         IN  Log([s EXCEPT !.devices = @ \cup {[id |-> id, screen |-> params.WindowSize]},
                           !.ret = id], "createDevice")

\* IrrlichtDevice::drop on a device that holds its last reference.
drop(s, id) == Log([s EXCEPT !.devices = {d \in @ : d.id # id}], "device_drop")

\* RenderingCore::getVirtualSize of a core of kind `mode` on a screen of `size`.
VirtualSize(mode, size) ==
    IF mode = "sidebyside" THEN <<size[1] \div 2, size[2]>> ELSE size

\* createRenderingCore(draw_mode, device, client, hud): a new core bound to `dev`.
createRenderingCore(s, draw_mode, dev) ==
    LET id == FreshId(CoreIds, {c.id : c \in s.cores})
        kind == IF draw_mode \in {"none", "sidebyside"} THEN draw_mode ELSE "none"
    IN  Log([s EXCEPT !.cores = @ \cup {[id |-> id, mode |-> kind, device |-> dev,
                                         virtual_size |-> VirtualSize(kind, DeviceOf(s, dev).screen),
                                         initialized |-> FALSE]},
                      !.ret = id], "core_construct")

\* std::unique_ptr::reset(p): the handle takes p, then the old object is deleted.
CoreReset(s, e, p) ==
    LET old == s.core[e]
        s1 == [s EXCEPT !.core[e] = p]
    IN  IF old = NULL THEN s1
        ELSE Log([s1 EXCEPT !.cores = {c \in @ : c.id # old}], "core_destroy")

\* core->initialize()
CoreInitialize(s, e) ==
    LET c == CoreOf(s, s.core[e])
    IN  Log([s EXCEPT !.cores = (@ \ {c}) \cup {[c EXCEPT !.initialized = TRUE]}],
            "core_initialize")

(***************************************************************************)
(* RenderingEngine::RenderingEngine                                        *)
(***************************************************************************)
ConstructorCall(e, driverstring, supported, params, s) ==
    [op |-> "construct", this |-> e, had_instance |-> (s_singleton # NULL),
     driverstring |-> driverstring, supported |-> supported,
     params |-> params, device |-> s.ret]

\* SIrrlichtCreationParameters, as far as the model's devices use them.
CreationParameters(driverType, size) == [DriverType |-> driverType, WindowSize |-> size]

\* The constructor without its first statement.
Constructor_NoSanityCheck(e, driverstring, supported, size, devOk, ub) ==
    LET s0 == Cur
        r  == ResolveDriver(driverstring, getSupportedVideoDrivers(supported))
        s1 == IF r.invalid THEN Log(s0, "errorstream") ELSE s0
        params == CreationParameters(r.type, size)
        s2 == createDeviceEx(s1, params, devOk)
    IN  IF s2.ret = NULL
        THEN Commit([Log(s2, "null_deref") EXCEPT !.fatal = ub],
                    ConstructorCall(e, driverstring, supported, params, s2))
        ELSE Commit([s2 EXCEPT !.engines = @ \cup {e}, !.m_device[e] = s2.ret,
                               !.core[e] = NULL, !.lifecycle[e] = "DeviceReady",
                               !.single = e],
                    ConstructorCall(e, driverstring, supported, params, s2))

Constructor(e, driverstring, supported, size, devOk, ub) ==
    LET s0 == Cur
        r  == ResolveDriver(driverstring, getSupportedVideoDrivers(supported))
    IN  IF s0.single # NULL
        THEN \* sanity_check(!s_singleton) fails
             Commit([Log(s0, "sanity_check_failed") EXCEPT !.fatal = "sanity_check"],
                    [op |-> "construct", this |-> e, had_instance |-> TRUE])
        ELSE LET s1 == IF r.invalid THEN Log(s0, "errorstream") ELSE s0
                 params == CreationParameters(r.type, size)
                 s2 == createDeviceEx(s1, params, devOk)
             IN  IF s2.ret = NULL
                 THEN \* m_device->getVideoDriver() through a null m_device
                      Commit([Log(s2, "null_deref") EXCEPT !.fatal = ub],
                             ConstructorCall(e, driverstring, supported, params, s2))
                 ELSE Commit([s2 EXCEPT !.engines = @ \cup {e}, !.m_device[e] = s2.ret,
                                        !.core[e] = NULL, !.lifecycle[e] = "DeviceReady",
                                        !.single = e],
                             ConstructorCall(e, driverstring, supported, params, s2))

(***************************************************************************)
(* RenderingEngine::~RenderingEngine                                       *)
(***************************************************************************)
DestructorCall(e) == [op |-> "destruct", this |-> e, state |-> lifecycle[e]]

ClearSingleton(s) == Log([s EXCEPT !.single = NULL], "singleton_clear")

\* The object is gone: its members hold nothing any more.
EndOfLife(s, e) ==
    [s EXCEPT !.engines = @ \ {e}, !.m_device[e] = NULL, !.core[e] = NULL,
              !.lifecycle[e] = "Destroyed"]

\* The destructor releasing the device before the core.
Destructor_DeviceFirst(e) ==
    LET s1 == drop(Cur, m_device[e])
        s2 == CoreReset(s1, e, NULL)
        s3 == ClearSingleton(s2)
    IN  Commit(EndOfLife(s3, e), DestructorCall(e))

Destructor(e) ==
    LET s1 == CoreReset(Cur, e, NULL)
        s2 == drop(s1, s1.m_device[e])
        s3 == ClearSingleton(s2)
    IN  Commit(EndOfLife(s3, e), DestructorCall(e))

(***************************************************************************)
(* _initialize, _finalize, getWindowSize, _draw_scene                      *)
(***************************************************************************)
\* _initialize with `core = createRenderingCore(...)` on a raw pointer: the old core leaks.
_initialize_Leak(e, draw_mode) ==
    LET s1 == createRenderingCore(Cur, draw_mode, m_device[e])
        s2 == [s1 EXCEPT !.core[e] = s1.ret]
        s3 == CoreInitialize(s2, e)
    IN  Commit([s3 EXCEPT !.lifecycle[e] = "SessionActive"],
               [op |-> "initialize", this |-> e, draw_mode |-> draw_mode,
                state |-> lifecycle[e]])

_initialize(e, draw_mode) ==
    LET s1 == createRenderingCore(Cur, draw_mode, m_device[e])
        s2 == CoreReset(s1, e, s1.ret)
        s3 == CoreInitialize(s2, e)
    IN  Commit([s3 EXCEPT !.lifecycle[e] = "SessionActive"],
               [op |-> "initialize", this |-> e, draw_mode |-> draw_mode,
                state |-> lifecycle[e]])

\* _finalize that forgets to reset the handle.
_finalize_NoReset(e) ==
    Commit([Cur EXCEPT !.lifecycle[e] = "DeviceReady"],
           [op |-> "finalize", this |-> e, state |-> lifecycle[e]])

_finalize(e) ==
    LET s1 == CoreReset(Cur, e, NULL)
    IN  Commit([s1 EXCEPT !.lifecycle[e] = "DeviceReady"],
               [op |-> "finalize", this |-> e, state |-> lifecycle[e]])

\* getWindowSize that always asks the device.
getWindowSize_Physical(s, e) == DeviceOf(s, s.m_device[e]).screen

getWindowSize(s, e) ==
    IF s.core[e] # NULL
    THEN CoreOf(s, s.core[e]).virtual_size
    ELSE DeviceOf(s, s.m_device[e]).screen

GetWindowSize(e) ==
    Commit(Cur, [op |-> "getWindowSize", this |-> e, state |-> lifecycle[e],
                 ret |-> getWindowSize(Cur, e)])

\* core->draw(...): through a null handle the behaviour is undefined.
_draw_scene(e, ub) ==
    IF core[e] = NULL
    THEN Commit([Log(Cur, IF ub = "undefined" THEN "core_draw" ELSE "null_deref")
                   EXCEPT !.fatal = ub],
                [op |-> "draw_scene", this |-> e, state |-> lifecycle[e],
                 strategy |-> NULL])
    ELSE Commit(Log(Cur, "core_draw"),
                [op |-> "draw_scene", this |-> e, state |-> lifecycle[e],
                 strategy |-> core[e]])

(***************************************************************************)
(* _draw_load_screen                                                       *)
(***************************************************************************)
BarMinW == 200
BarMaxW == 600
BarMinH == 24
BarMaxH == 72

rangelim(d, min, max) == IF d < min THEN min ELSE IF d > max THEN max ELSE d

\* The bar with the percentage applied to the width divided by 100 first.
ProgressBar_DivideFirst(percent, has_img, has_bg, texW, texH) ==
    IF percent >= 0 /\ percent <= 100 /\ has_img /\ has_bg
    THEN LET imgW == rangelim(texW, BarMinW, BarMaxW)
             imgH == rangelim(texH, BarMinH, BarMaxH)
         IN  [drawn |-> TRUE, imgW |-> imgW, imgH |-> imgH,
              fillW |-> percent * (imgW \div 100),
              srcW |-> (percent * texW) \div 100]
    ELSE [drawn |-> FALSE, imgW |-> 0, imgH |-> 0, fillW |-> 0, srcW |-> 0]

\* Whether the two images are drawn, the size of the background's destination
\* rectangle (imgW x imgH), the width of the overlay's destination rectangle
\* (fillW) and of its source rectangle (srcW).  Built without __ANDROID__.
\* The products are u32 in the code; with percent <= 100 and the widths of the
\* model they stay far below 2^32, so no reduction is applied.
ProgressBar(percent, has_img, has_bg, texW, texH) ==
    IF percent >= 0 /\ percent <= 100 /\ has_img /\ has_bg
    THEN LET imgW == rangelim(texW, BarMinW, BarMaxW)
             imgH == rangelim(texH, BarMinH, BarMaxH)
         IN  [drawn |-> TRUE, imgW |-> imgW, imgH |-> imgH,
              fillW |-> (percent * imgW) \div 100,
              srcW |-> (percent * texW) \div 100]
    ELSE [drawn |-> FALSE, imgW |-> 0, imgH |-> 0, fillW |-> 0, srcW |-> 0]

\* guienv->addStaticText(...) and guitext->remove()
addStaticText(s) == Log([s EXCEPT !.gui = @ + 1], "addStaticText")
remove(s) == Log([s EXCEPT !.gui = @ - 1], "remove")

\* The clouds, if asked for, and beginScene.
BeginSceneWithClouds(s, cloud_menu_background) ==
    IF cloud_menu_background
    THEN Log(Log(Log(Log(s, "clouds_step"), "clouds_render"), "beginScene"),
             "clouds_drawAll")
    ELSE Log(s, "beginScene")

DrawProgressBar(s, bar) ==
    IF bar.drawn THEN Log(Log(s, "draw_progress_bg"), "draw_progress") ELSE s

LoadScreenCall(e, percent, clouds, menu_clouds, has_img, has_bg, texW, bar, screensize) ==
    [op |-> "draw_load_screen", this |-> e, state |-> lifecycle[e],
     percent |-> percent, clouds |-> clouds, menu_clouds |-> menu_clouds,
     has_img |-> has_img, has_bg |-> has_bg, texW |-> texW, bar |-> bar,
     center |-> <<screensize[1] \div 2, screensize[2] \div 2>>,
     gui_before |-> guiNodes]

\* _draw_load_screen without the last statement.
_draw_load_screen_NoRemove(e, percent, clouds, menu_clouds, has_img, has_bg, texW, texH) ==
    LET screensize == getWindowSize(Cur, s_singleton)
        s1 == addStaticText(Cur)
        s2 == BeginSceneWithClouds(s1, clouds /\ menu_clouds)
        bar == ProgressBar(percent, has_img, has_bg, texW, texH)
        s3 == DrawProgressBar(s2, bar)
        s4 == Log(Log(s3, "gui_drawAll"), "endScene")
    IN  Commit(s4, LoadScreenCall(e, percent, clouds, menu_clouds, has_img, has_bg,
                                  texW, bar, screensize))

_draw_load_screen(e, percent, clouds, menu_clouds, has_img, has_bg, texW, texH) ==
    LET screensize == getWindowSize(Cur, s_singleton)
        s1 == addStaticText(Cur)
        s2 == BeginSceneWithClouds(s1, clouds /\ menu_clouds)
        bar == ProgressBar(percent, has_img, has_bg, texW, texH)
        s3 == DrawProgressBar(s2, bar)
        s4 == Log(Log(s3, "gui_drawAll"), "endScene")
        s5 == remove(s4)
    IN  Commit(s5, LoadScreenCall(e, percent, clouds, menu_clouds, has_img, has_bg,
                                  texW, bar, screensize))

(***************************************************************************)
(* print_video_modes, getSupportedVideoModes, getDisplaySize               *)
(***************************************************************************)
\* Parameters of the null device of print_video_modes, and of createDevice(EDT_NULL).
NullDeviceParameters == CreationParameters(EDT_NULL, <<640, 480>>)

\* The lines written to std::cout for a video mode list.
RECURSIVE ModeLines(_, _)
ModeLines(modes, i) ==
    IF i > Len(modes) THEN << >> ELSE <<modes[i]>> \o ModeLines(modes, i + 1)

print_video_modes(devOk, listOk, modes, desktop) ==
    LET s0 == Log(Cur, "new_receiver")
        s1 == createDeviceEx(s0, NullDeviceParameters, devOk)
    IN  IF s1.ret = NULL
        THEN Commit(Log(s1, "delete_receiver"),
                    [op |-> "print_video_modes", created |-> FALSE, ret |-> FALSE,
                     out |-> << >>])
        ELSE LET out == <<"Available video modes (WxHxD):">>
                        \o (IF listOk
                            THEN ModeLines(modes, 1)
                                 \o <<"Active video mode (WxHxD):", desktop>>
                            ELSE << >>)
                 s2 == drop(s1, s1.ret)
                 s3 == Log(s2, "delete_receiver")
             IN  Commit(s3, [op |-> "print_video_modes", created |-> TRUE,
                             ret |-> listOk, out |-> out])

getSupportedVideoModes(devOk, modes) ==
    LET s1 == createDeviceEx(Cur, NullDeviceParameters, devOk)
    IN  IF s1.ret = NULL
        THEN \* sanity_check(nulldevice) fails
             Commit([Log(s1, "sanity_check_failed") EXCEPT !.fatal = "sanity_check"],
                    [op |-> "getSupportedVideoModes", created |-> FALSE, ret |-> << >>])
        ELSE LET mlist == ModeLines(modes, 1)
                 s2 == drop(s1, s1.ret)
             IN  Commit(s2, [op |-> "getSupportedVideoModes", created |-> TRUE,
                             ret |-> mlist])

getDisplaySize(devOk, desktop, ub) ==
    LET s1 == createDeviceEx(Cur, NullDeviceParameters, devOk)
    IN  IF s1.ret = NULL
        THEN \* nulldevice->getVideoModeList() through a null nulldevice
             Commit([Log(s1, "null_deref") EXCEPT !.fatal = ub],
                    [op |-> "getDisplaySize", created |-> FALSE, ret |-> <<0, 0>>])
        ELSE LET s2 == drop(s1, s1.ret)
             IN  Commit(s2, [op |-> "getDisplaySize", created |-> TRUE,
                             ret |-> <<desktop[1], desktop[2]>>])

(***************************************************************************)
(* Specification                                                           *)
(***************************************************************************)
Init ==
    /\ s_singleton = NULL
    /\ engines = {}
    /\ m_device = [e \in EngineIds |-> NULL]
    /\ core = [e \in EngineIds |-> NULL]
    /\ devices = {}
    /\ cores = {}
    /\ guiNodes \in 0..MaxGuiNodes
    /\ lifecycle = [e \in EngineIds |-> "Uninitialized"]
    /\ fatal = "none"
    /\ call = [op |-> "start"]
    /\ trace = << >>

Running == fatal = "none"

Construct ==
    /\ Running
    /\ Cardinality(devices) < MaxDevices
    /\ engines # EngineIds
    /\ \E driverstring \in (IF s_singleton = NULL THEN FewDriverStrings ELSE {STR_opengl}),
          supported \in (IF s_singleton = NULL THEN FewSupportedSets ELSE {0..7}),
          size \in (IF s_singleton = NULL THEN ScreenSizes ELSE {<<800, 600>>}),
          devOk \in (IF s_singleton = NULL THEN BOOLEAN ELSE {TRUE}) :
          \E ub \in (IF devOk THEN {"segfault"} ELSE UBOutcomes) :
             Constructor(FreshId(EngineIds, engines), driverstring, supported, size,
                         devOk, ub)

Destruct ==
    /\ Running
    /\ \E e \in engines : Destructor(e)

BeginSession ==
    /\ Running
    /\ Cardinality(cores) < MaxCores
    /\ \E e \in engines, draw_mode \in DrawModes : _initialize(e, draw_mode)

EndSession ==
    /\ Running
    /\ \E e \in engines : _finalize(e)

WindowSize ==
    /\ Running
    /\ \E e \in engines : GetWindowSize(e)

DrawScene ==
    /\ Running
    /\ \E e \in engines :
          \E ub \in (IF core[e] = NULL THEN UBOutcomes ELSE {"segfault"}) :
             _draw_scene(e, ub)

DrawLoadScreen ==
    /\ Running
    /\ \E e \in engines, percent \in Percents, clouds \in BOOLEAN,
          menu_clouds \in BOOLEAN, has_img \in BOOLEAN, has_bg \in BOOLEAN,
          texW \in TexWidths, texH \in TexHeights :
          /\ s_singleton = e
          /\ _draw_load_screen(e, percent, clouds, menu_clouds, has_img, has_bg,
                              texW, texH)

PrintVideoModes ==
    /\ Running
    /\ Cardinality(devices) < MaxDevices
    /\ \E devOk \in BOOLEAN, listOk \in BOOLEAN, modes \in ModeLists,
          desktop \in Desktops :
          print_video_modes(devOk, listOk, modes, desktop)

SupportedVideoModes ==
    /\ Running
    /\ Cardinality(devices) < MaxDevices
    /\ \E devOk \in BOOLEAN, modes \in ModeLists : getSupportedVideoModes(devOk, modes)

DisplaySize ==
    /\ Running
    /\ Cardinality(devices) < MaxDevices
    /\ \E devOk \in BOOLEAN, desktop \in Desktops :
          \E ub \in (IF devOk THEN {"segfault"} ELSE UBOutcomes) :
             getDisplaySize(devOk, desktop, ub)

Next ==
    \/ Construct
    \/ Destruct
    \/ BeginSession
    \/ EndSession
    \/ WindowSize
    \/ DrawScene
    \/ DrawLoadScreen
    \/ PrintVideoModes
    \/ SupportedVideoModes
    \/ DisplaySize

Spec == Init /\ [][Next]_vars

(***************************************************************************)
(* The loading screen over every percentage and every texture width: an    *)
(* engine in DeviceReady, and one call of _draw_load_screen on the inputs   *)
(* drawn by the initial state.                                             *)
(***************************************************************************)
InitReady ==
    /\ s_singleton = 1
    /\ engines = {1}
    /\ m_device = [e \in EngineIds |-> IF e = 1 THEN 1 ELSE NULL]
    /\ core = [e \in EngineIds |-> NULL]
    /\ devices = {[id |-> 1, screen |-> <<800, 600>>]}
    /\ cores = {}
    /\ guiNodes = 0
    /\ lifecycle = [e \in EngineIds |-> IF e = 1 THEN "DeviceReady" ELSE "Uninitialized"]
    /\ fatal = "none"
    /\ trace = << >>

InitBar ==
    /\ InitReady
    /\ \E percent \in AllPercents, has_img \in BOOLEAN, has_bg \in BOOLEAN,
          texW \in 0..MaxTexW, texH \in TexHeights :
          call = [op |-> "input", percent |-> percent, has_img |-> has_img,
                  has_bg |-> has_bg, texW |-> texW, texH |-> texH]

DrawLoadScreenOnInput ==
    /\ Running
    /\ call.op = "input"
    /\ _draw_load_screen(s_singleton, call.percent, FALSE, FALSE, call.has_img,
                        call.has_bg, call.texW, call.texH)

NextBar == DrawLoadScreenOnInput

SpecBar == InitBar /\ [][NextBar]_vars

(***************************************************************************)
(* The constructor over every configured driver name and every platform:   *)
(* no engine yet, and one construction on the inputs drawn by the initial  *)
(* state.                                                                  *)
(***************************************************************************)
InitDriver ==
    /\ s_singleton = NULL
    /\ engines = {}
    /\ m_device = [e \in EngineIds |-> NULL]
    /\ core = [e \in EngineIds |-> NULL]
    /\ devices = {}
    /\ cores = {}
    /\ guiNodes = 0
    /\ lifecycle = [e \in EngineIds |-> "Uninitialized"]
    /\ fatal = "none"
    /\ trace = << >>
    /\ \E driverstring \in DriverStrings, supported \in SupportedSets,
          devOk \in BOOLEAN :
          call = [op |-> "input", driverstring |-> driverstring,
                  supported |-> supported, devOk |-> devOk]

ConstructOnInput ==
    /\ Running
    /\ call.op = "input"
    /\ \E ub \in (IF call.devOk THEN {"segfault"} ELSE UBOutcomes) :
          Constructor(1, call.driverstring, call.supported, <<800, 600>>,
                      call.devOk, ub)

NextDriver == ConstructOnInput

SpecDriver == InitDriver /\ [][NextDriver]_vars

(***************************************************************************)
(* Properties                                                              *)
(***************************************************************************)
TraceNames == [i \in DOMAIN trace |-> trace[i].ev]
Count(ev) == Cardinality({i \in DOMAIN trace : trace[i].ev = ev})
Before(a, b) == \A i, j \in DOMAIN trace : trace[i].ev = a /\ trace[j].ev = b => i < j
LowerStr(s) == [i \in DOMAIN s |-> tolower(s[i])]
ProbeOps == {"print_video_modes", "getSupportedVideoModes", "getDisplaySize"}

\* C1: at most one RenderingEngine and at most one device exist at a time; a
\* construction while s_singleton is set ends in the failed sanity_check, before
\* any device is created, and leaves the instance, its device and s_singleton
\* as they were.
C1_SingleInstance ==
    /\ [](/\ Cardinality(engines) <= 1
          /\ Cardinality(devices) <= 1
          /\ (engines = {} => s_singleton = NULL /\ devices = {})
          /\ (engines # {} => /\ s_singleton \in engines
                              /\ {d.id : d \in devices} = {m_device[s_singleton]}))
    /\ [][(call'.op = "construct" /\ s_singleton # NULL) =>
             /\ fatal' = "sanity_check"
             /\ \A i \in DOMAIN trace' : trace'[i].ev # "createDevice"
             /\ UNCHANGED <<s_singleton, engines, m_device, core, devices, cores>>]_vars

C1_Witness ==
    /\ call.op = "construct"
    /\ call.had_instance
    /\ fatal = "sanity_check"
    /\ Cardinality(engines) = 1
    /\ Cardinality(devices) = 1

\* C2: _draw_scene outside SessionActive is caught by an assertion and never
\* forwards a draw call through an absent core.
C2_DrawSceneWithoutSessionAsserts ==
    (call.op = "draw_scene" /\ call.state # "SessionActive") =>
        /\ fatal = "sanity_check"
        /\ Count("core_draw") = 0

\* C3: the core handle of an engine is non-null exactly when the engine is in
\* SessionActive: null after construction, non-null after every _initialize,
\* null after every _finalize and after the destructor.
C3_StrategyIffSessionActive ==
    /\ \A e \in EngineIds :
          /\ (core[e] # NULL) <=> (lifecycle[e] = "SessionActive")
          /\ core[e] # NULL => \E c \in cores : c.id = core[e]
    /\ (call.op = "construct" /\ fatal = "none") => core[call.this] = NULL
    /\ call.op = "initialize" => core[call.this] # NULL
    /\ call.op = "finalize" => core[call.this] = NULL
    /\ call.op = "destruct" => core[call.this] = NULL

C3_Witness ==
    /\ call.op = "finalize"
    /\ call.state = "SessionActive"
    /\ lifecycle[call.this] = "DeviceReady"
    /\ core[call.this] = NULL

\* C4: getWindowSize returns the virtual size of the held core in SessionActive
\* and the screen size of the device otherwise, and changes neither.
C4_WindowSizeFollowsSession ==
    /\ [](call.op = "getWindowSize" =>
            /\ call.state = "SessionActive" =>
                  \E c \in cores : c.id = core[call.this] /\ call.ret = c.virtual_size
            /\ call.state # "SessionActive" =>
                  \E d \in devices : d.id = m_device[call.this] /\ call.ret = d.screen)
    /\ [][call'.op = "getWindowSize" =>
             UNCHANGED <<s_singleton, engines, m_device, core, devices, cores,
                         lifecycle>>]_vars

C4_Witness ==
    /\ call.op = "getWindowSize"
    /\ call.state = "SessionActive"
    /\ \E d \in devices : d.id = m_device[call.this] /\ call.ret # d.screen

\* C5: the destructor releases the core first (if there is one), then the
\* device, then clears s_singleton; the device is dropped once, and no core
\* exists when it is dropped.
C5_TeardownOrder ==
    call.op = "destruct" =>
        /\ TraceNames = (IF call.state = "SessionActive"
                         THEN <<"core_destroy", "device_drop", "singleton_clear">>
                         ELSE <<"device_drop", "singleton_clear">>)
        /\ Count("device_drop") = 1
        /\ \A i \in DOMAIN trace :
              trace[i].ev = "device_drop" => trace[i].cores = 0 /\ trace[i].devices = 0
        /\ s_singleton = NULL
        /\ devices = {}
        /\ cores = {}

C5_Witness ==
    /\ call.op = "destruct"
    /\ call.state = "SessionActive"
    /\ Count("core_destroy") = 1

\* C6 as stated: on _initialize with a core already held, the old core is
\* destroyed before the new one is constructed, and two cores never coexist.
C6_OldDiscardedBeforeNewConstructed ==
    call.op = "initialize" =>
        /\ Before("core_destroy", "core_construct")
        /\ Before("core_destroy", "core_initialize")
        /\ \A i \in DOMAIN trace : trace[i].cores <= 1

\* C6 as amended: the new core is constructed first, while the old one still
\* exists; the old one is destroyed before the new one's initialize() runs;
\* two cores coexist only between the construction and the reset, and one core
\* is left.
C6_OldDiscardedBeforeNewInitialized ==
    call.op = "initialize" =>
        /\ call.state = "SessionActive" =>
              /\ TraceNames = <<"core_construct", "core_destroy", "core_initialize">>
              /\ trace[1].cores = 2
              /\ trace[2].cores = 1
              /\ trace[3].cores = 1
        /\ call.state # "SessionActive" =>
              /\ TraceNames = <<"core_construct", "core_initialize">>
              /\ trace[1].cores = 1
        /\ Cardinality(cores) = 1
        /\ \E c \in cores : c.id = core[call.this] /\ c.initialized

C6_Witness ==
    /\ call.op = "initialize"
    /\ call.state = "SessionActive"
    /\ Count("core_destroy") = 1

\* C7: the configured name selects the first supported driver whose name equals
\* it up to letter case; with no such driver the type is EDT_OPENGL, one message
\* goes to errorstream and the device is still created; names that differ only
\* in letter case select the same driver.
C7_DriverResolution ==
    (call.op = "construct" /\ ~call.had_instance) =>
        LET M == {d \in call.supported :
                     LowerStr(getVideoDriverName(d)) = LowerStr(call.driverstring)}
        IN  /\ M # {} => /\ call.params.DriverType \in M
                         /\ \A d \in M : call.params.DriverType <= d
                         /\ Count("errorstream") = 0
            /\ M = {} => /\ call.params.DriverType = EDT_OPENGL
                         /\ Count("errorstream") = 1
                         /\ Before("errorstream", "createDevice")
                         /\ call.device # NULL => fatal = "none" /\ Count("createDevice") = 1
            /\ \A b \in DriverStrings :
                  LowerStr(b) = LowerStr(call.driverstring) =>
                     ResolveDriver(b, getSupportedVideoDrivers(call.supported)).type
                        = call.params.DriverType

C7_Witness ==
    /\ call.op = "construct"
    /\ ~call.had_instance
    /\ call.driverstring # STR_null
    /\ call.params.DriverType = EDT_NULL
    /\ fatal = "none"

\* C8: a probe device that cannot be created never ends the process and is
\* never used.
C8_ProbeFailureNeverEscalates ==
    (call.op \in ProbeOps /\ ~call.created) =>
        /\ fatal = "none"
        /\ Count("sanity_check_failed") = 0
        /\ Count("null_deref") = 0

\* C9: _draw_load_screen adds one text element, runs one beginScene/endScene
\* cycle with or without clouds, and removes the element after endScene; the
\* GUI holds as many elements after the call as before it.
C9_LoadScreenTextIsTransient ==
    call.op = "draw_load_screen" =>
        /\ guiNodes = call.gui_before
        /\ Count("addStaticText") = 1
        /\ Count("beginScene") = 1
        /\ Count("endScene") = 1
        /\ Count("remove") = 1
        /\ trace[1].ev = "addStaticText"
        /\ trace[Len(trace)].ev = "remove"
        /\ trace[Len(trace) - 1].ev = "endScene"
        /\ Before("beginScene", "gui_drawAll")
        /\ Before("gui_drawAll", "endScene")
        /\ \A i \in DOMAIN trace :
              trace[i].gui = (IF i < Len(trace) THEN call.gui_before + 1
                              ELSE call.gui_before)

C9_Witness ==
    /\ call.op = "draw_load_screen"
    /\ call.clouds /\ call.menu_clouds
    /\ call.bar.drawn
    /\ guiNodes = call.gui_before
    /\ Count("clouds_drawAll") = 1

\* When the bar is drawn and when it is not, and the frame around it.
BarDrawnWhenExpected ==
    /\ call.bar.drawn <=> (call.percent >= 0 /\ call.percent <= 100
                           /\ call.has_img /\ call.has_bg)
    /\ Count("draw_progress") = (IF call.bar.drawn THEN 1 ELSE 0)
    /\ Count("draw_progress_bg") = (IF call.bar.drawn THEN 1 ELSE 0)
    /\ Count("beginScene") = 1
    /\ Count("gui_drawAll") = 1
    /\ Count("endScene") = 1
    /\ call.bar.drawn =>
          /\ call.bar.imgW >= BarMinW /\ call.bar.imgW <= BarMaxW
          /\ (call.texW >= BarMinW /\ call.texW <= BarMaxW) => call.bar.imgW = call.texW
          /\ call.bar.fillW * 100 <= call.percent * call.bar.imgW
          /\ call.percent * call.bar.imgW < (call.bar.fillW + 1) * 100
          /\ call.percent = 0 => call.bar.fillW = 0
          /\ call.percent = 100 => call.bar.fillW = call.bar.imgW

\* C10 as stated: the bar is drawn exactly for 0 <= percent <= 100 with both
\* textures; the overlay is percent/100 of the background width, truncated; and
\* at percent = 50 it is exactly half of the background width.
C10_HalfWidthExact ==
    call.op = "draw_load_screen" =>
        /\ BarDrawnWhenExpected
        /\ (call.bar.drawn /\ call.percent = 50) => 2 * call.bar.fillW = call.bar.imgW

\* C10 as amended: at percent = 50 the overlay is half of the background width
\* rounded down: exactly half for an even width, half a pixel less for an odd one.
C10_HalfWidthTruncated ==
    call.op = "draw_load_screen" =>
        /\ BarDrawnWhenExpected
        /\ (call.bar.drawn /\ call.percent = 50) =>
              /\ call.bar.fillW = call.bar.imgW \div 2
              /\ 2 * call.bar.fillW = call.bar.imgW - (call.bar.imgW % 2)

C10_Witness ==
    /\ call.op = "draw_load_screen"
    /\ call.bar.drawn
    /\ call.percent = 50
    /\ call.bar.imgW = 201
    /\ call.bar.fillW = 100

====
